---- MODULE Spec2Model ----
(***************************************************************************)
(* A model of add_repos.py: the tree classifier, the ecosystem detector,   *)
(* the per-ecosystem scan executors, the project registrar and the job     *)
(* runner with its statistics counters.                                    *)
(*                                                                         *)
(* External commands and HTTP calls are modelled by their outcome: a       *)
(* subprocess either exits 0 ("ok") or exits non-zero; a request either    *)
(* returns or raises.  A repository tree is the sequence of directory      *)
(* entries in the order Path.rglob("*") yields them.                       *)
(***************************************************************************)
EXTENDS Integers, Sequences, FiniteSets, TLC

VARIABLES
    tree,       \* SpecTree: the repository tree handed to classify_repo
    tpc,        \* SpecTree: "init" | "classified" | "dispatched"
    repo_type,  \* SpecTree: category returned by classify_repo ("" before)
    tags,       \* SpecTree: tag set returned by classify_repo
    executor,   \* SpecTree: executor chosen by detect_and_scan ("" before)
    job,        \* SpecJob, SpecRegistrar: the job (or create_project call) in progress
    projects,   \* the project keys the SonarQube server holds
    stats,      \* the stats dictionary
    calls,      \* SpecRegistrar: the create_project calls that have ended, in order
    jobs,       \* Spec: the job list built by main, each job with its progress
    workers,    \* Spec: args.workers
    rpc,        \* Spec: position of main / run_jobs
    summary,    \* Spec: the stats printed by the summary, "none" before
    lock,       \* SpecStats: the threads that hold stats_lock
    threads,    \* SpecStats: each thread's position in bump_stat
    made        \* SpecStats: the bump_stat calls made so far, per key

treeVars == <<tree, tpc, repo_type, tags, executor>>
jobVars == <<job, projects, stats, calls>>
runVars == <<jobs, workers, rpc, summary>>
lockVars == <<lock, threads, made>>
vars == <<tree, tpc, repo_type, tags, executor, job, projects, stats, calls,
          jobs, workers, rpc, summary, lock, threads, made>>

(***************************************************************************)
(* Bounds                                                                  *)
(***************************************************************************)
MaxFiles == 3
MaxCalls == 3
NJobs == 3
MaxWorkers == 2
MaxBumps == 2

(***************************************************************************)
(* Directory entries.  An entry is the pair (stem, suffix) pathlib splits  *)
(* its name into, whether it sits directly in the scanned directory, and   *)
(* whether it is a regular file.                                           *)
(***************************************************************************)
Entry(stem, suffix, root, is_file) ==
    [stem |-> stem, suffix |-> suffix, root |-> root, is_file |-> is_file]

Entries ==
    { Entry("plan", ".jmx", TRUE, TRUE),
      Entry("Load", ".JMX", FALSE, TRUE),
      Entry("main", ".py", FALSE, TRUE),
      Entry("Prog", ".cs", FALSE, TRUE),
      Entry("app", ".csproj", FALSE, TRUE),
      Entry("main", ".go", TRUE, TRUE),
      Entry("go", ".mod", TRUE, TRUE),
      Entry("pom", ".xml", TRUE, TRUE),
      Entry("pom", ".xml", FALSE, TRUE),
      Entry("a", ".yaml", TRUE, TRUE),
      Entry("B", ".YML", FALSE, TRUE),
      Entry("c", ".tf", TRUE, TRUE),
      Entry("README", ".md", TRUE, TRUE),
      Entry("pkg", ".py", TRUE, FALSE),
      Entry("app", ".sln", TRUE, TRUE),
      Entry("App", ".java", FALSE, TRUE) }

\* str.lower() on the suffixes that occur in Entries
Lower(s) ==
    CASE s = ".JMX" -> ".jmx"
      [] s = ".YML" -> ".yml"
      [] OTHER -> s

RECURSIVE SeqsUpTo(_, _)
SeqsUpTo(S, n) ==
    IF n = 0 THEN {<<>>}
    ELSE LET shorter == SeqsUpTo(S, n - 1)
         IN  shorter \cup {Append(q, e) : q \in {p \in shorter : Len(p) = n - 1}, e \in S}

Trees == SeqsUpTo(Entries, MaxFiles)

(***************************************************************************)
(* classify_repo                                                           *)
(***************************************************************************)
code_ext == {".java", ".py", ".js", ".ts", ".go", ".cs", ".cpp", ".rb", ".php"}
yaml_ext == {".yaml", ".yml"}
tf_ext == {".tf"}

Classification(type, tagset) == [type |-> type, tags |-> tagset]

\* ClassifyTail with the terraform flag never turned into a tag
ClassifyTail_NoTfTag(has_yaml, has_tf) ==
    IF has_yaml \/ has_tf
    THEN Classification("config", {"config"} \cup (IF has_yaml THEN {"yaml"} ELSE {}))
    ELSE Classification("empty", {})

\* the code after the loop: lines 199-208
ClassifyTail(has_yaml, has_tf) ==
    IF has_yaml \/ has_tf
    THEN Classification("config",
            {"config"} \cup (IF has_yaml THEN {"yaml"} ELSE {})
                       \cup (IF has_tf THEN {"terraform"} ELSE {}))
    ELSE Classification("empty", {})

\* the loop over rglob("*"), from position i with the flags accumulated so far
RECURSIVE ClassifyFrom(_, _, _, _)
ClassifyFrom(t, i, has_yaml, has_tf) ==
    IF i > Len(t) THEN ClassifyTail(has_yaml, has_tf)
    ELSE IF ~t[i].is_file THEN ClassifyFrom(t, i + 1, has_yaml, has_tf)
    ELSE LET suffix == Lower(t[i].suffix)
         IN  IF suffix = ".jmx" THEN Classification("jmeter", {"jmeter", "performance"})
             ELSE IF suffix \in code_ext THEN Classification("code", {"code"})
             ELSE ClassifyFrom(t, i + 1,
                               has_yaml \/ suffix \in yaml_ext,
                               has_tf \/ suffix \in tf_ext)

classify_repo(t) == ClassifyFrom(t, 1, FALSE, FALSE)

(***************************************************************************)
(* File-system queries of detect_and_scan and the executors                *)
(***************************************************************************)
\* (repo_dir / name).exists(): an entry of that exact name directly in repo_dir
ExistsAtRoot(t, stem, suffix) ==
    \E i \in 1..Len(t) : t[i].root /\ t[i].stem = stem /\ t[i].suffix = suffix

\* repo_dir.rglob("*" + suffix): case-sensitive match on the name, any entry kind
RGlob(t, suffix) == {i \in 1..Len(t) : t[i].suffix = suffix}

find_csproj_files(t) == RGlob(t, ".csproj")

\* DetectExecutor with the .NET check moved in front of the pom.xml check
DetectExecutor_DotnetFirst(t) ==
    IF find_csproj_files(t) # {} \/ RGlob(t, ".cs") # {} THEN "scan_dotnet"
    ELSE IF ExistsAtRoot(t, "pom", ".xml") THEN "scan_java"
    ELSE IF RGlob(t, ".py") # {} THEN "scan_python"
    ELSE IF ExistsAtRoot(t, "go", ".mod") \/ RGlob(t, ".go") # {} THEN "scan_go"
    ELSE "generic"

\* the dispatch chain of detect_and_scan for a repository that is neither
\* jmeter, config nor empty: lines 601-629
DetectExecutor(t) ==
    IF ExistsAtRoot(t, "pom", ".xml") THEN "scan_java"
    ELSE IF find_csproj_files(t) # {} \/ RGlob(t, ".cs") # {} THEN "scan_dotnet"
    ELSE IF RGlob(t, ".py") # {} THEN "scan_python"
    ELSE IF ExistsAtRoot(t, "go", ".mod") \/ RGlob(t, ".go") # {} THEN "scan_go"
    ELSE "generic"

\* the whole dispatch of detect_and_scan on the classification: lines 538-629
Dispatch(t, type) ==
    CASE type = "jmeter" -> "jmeter"
      [] type = "config" -> "config"
      [] type = "empty" -> "empty"
      [] OTHER -> DetectExecutor(t)


(***************************************************************************)
(* Stats                                                                   *)
(***************************************************************************)
StatKeys == {"created", "exists", "scanned", "config_only", "empty", "failed"}

ZeroStats == [k \in StatKeys |-> 0]

\* bump_stat(key): the increment made under stats_lock
bump_stat(st, key) == [st EXCEPT ![key] = @ + 1]

RECURSIVE BumpAll(_, _)
BumpAll(st, keys) ==
    IF keys = <<>> THEN st ELSE BumpAll(bump_stat(st, Head(keys)), Tail(keys))

(***************************************************************************)
(* A job: one call of process_local_repo or process_remote_repo.           *)
(*   pc          position in the job                                       *)
(*   status      "pending" | "running" | "returned" | "raised"             *)
(*   launched    the subprocesses and HTTP requests started, in order      *)
(*   failures    those of them that exited non-zero or raised              *)
(*   bumps       the bump_stat calls made, in order                        *)
(*   search      create_project's answer to its search, until it returns   *)
(*   reply       create_project's answer to its create request, likewise   *)
(*   worker      the thread that runs the job now ({} when none does)      *)
(*   takes       how many times a thread has called the job (Spec)         *)
(*   workdir     the workdir of the repository's override entry            *)
(*   scan_dir    the path apply_extra_commands returned                    *)
(*   extra_cwd, checkout_dir, classify_dir, scan_cwd                       *)
(*               where the override commands, the checkout,                *)
(*               classify_repo and the scanner ran                         *)
(***************************************************************************)
UrlKinds == {"stash_repo", "stash_other", "github", "other"}

\* to_ssh_url raises ValueError for a stash.haesoft.net URL that lacks
\* /projects/ or /repos/
ToSshUrlRaises(url) == url = "stash_other"

\* the entry of extra_commands for the repository: none, one with
\* commands, one without commands
Overrides == {"none", "commands", "bare"}

(***************************************************************************)
(* Paths.  A path is the sequence of its components below "/"; a workdir   *)
(* is a string of the override file: absolute or relative, "" when absent. *)
(***************************************************************************)
PathOf(abs, parts) == [abs |-> abs, parts |-> parts]

\* no workdir in the entry (None or "")
NoWorkdir == PathOf(FALSE, <<>>)

Workdirs ==
    { PathOf(FALSE, <<"src">>),
      PathOf(FALSE, <<"missing">>),
      PathOf(FALSE, <<"..">>),
      PathOf(FALSE, <<"..", "other">>),
      PathOf(FALSE, <<"src", "..">>),
      PathOf(TRUE, <<"etc">>),
      PathOf(TRUE, <<"tmp", "repo", "src">>) }

\* the checkout directory of the job: remote_base / repo, local_base / name
RepoRoot == <<"tmp", "repo">>

\* the directories that exist on the machine
Dirs == {<<>>, <<"tmp">>, <<"tmp", "repo">>, <<"tmp", "repo", "src">>,
         <<"tmp", "other">>, <<"etc">>}

\* a path field that has not been assigned
NoPath == <<"-">>

\* pathlib: repo_root / workdir; an absolute right operand replaces the left
JoinPath(root, wd) == IF wd.abs THEN wd.parts ELSE root \o wd.parts

Parent(dir) == IF dir = <<>> THEN <<>> ELSE SubSeq(dir, 1, Len(dir) - 1)

\* the directory the operating system reaches from cur along parts: ".."
\* goes to the parent, a name must be an existing directory
RECURSIVE Walk(_, _)
Walk(cur, parts) ==
    IF parts = <<>> THEN [ok |-> TRUE, dir |-> cur]
    ELSE IF Head(parts) = ".." THEN Walk(Parent(cur), Tail(parts))
    ELSE IF Append(cur, Head(parts)) \in Dirs THEN Walk(Append(cur, Head(parts)), Tail(parts))
    ELSE [ok |-> FALSE, dir |-> cur]

\* Path.exists()
PathExists(path) == Walk(<<>>, path).ok

\* apply_extra_commands without the fallback for a missing workdir
ScanDir_NoFallback(root, wd) == IF wd = NoWorkdir THEN root ELSE JoinPath(root, wd)

\* apply_extra_commands: the scan directory of an entry with workdir wd
ScanDir(root, wd) ==
    IF wd = NoWorkdir THEN root
    ELSE IF PathExists(JoinPath(root, wd)) THEN JoinPath(root, wd)
    ELSE root

NewJob(mode, url, key, override, t) ==
    [pc |-> "start", status |-> "pending", mode |-> mode, url |-> url, key |-> key,
     override |-> override, tree |-> t, repo_type |-> "", executor |-> "",
     launched |-> <<>>, failures |-> {}, bumps |-> <<>>,
     scanner_cmd |-> "", scan_opts |-> {}, coverage_file |-> FALSE,
     worker |-> {}, takes |-> 0, search |-> "", reply |-> "",
     workdir |-> NoWorkdir, extra_cwd |-> NoPath, scan_dir |-> NoPath,
     checkout_dir |-> NoPath, classify_dir |-> NoPath, scan_cwd |-> NoPath]

Goto(js, pc) == [js EXCEPT !.pc = pc, !.status = "running"]
Launch(js, cmd) == [js EXCEPT !.launched = Append(@, cmd)]
Failed(js, what) == [js EXCEPT !.failures = @ \cup {what}]
Bump(js, key) == [js EXCEPT !.bumps = Append(@, key)]

\* the job function returns
Return(js) == [js EXCEPT !.pc = "done", !.status = "returned", !.worker = {}]
\* an exception leaves the job function
RaiseOut(js) == [js EXCEPT !.pc = "done", !.status = "raised", !.worker = {}]
\* an exception is in flight inside the try block of process_*_repo
Raise(js) == Goto(js, "except")

\* a command whose failure is ignored (check=False) or caught on the spot
Tolerated(js, cmd, next) ==
    {Goto(Launch(js, cmd), next), Goto(Failed(Launch(js, cmd), cmd), next)}

\* a command run with check=True and no handler around it
Checked(js, cmd, next) ==
    {Goto(Launch(js, cmd), next), Raise(Failed(Launch(js, cmd), cmd))}

\* the scanner command is built; run_scanner is called next
Scanner(js, cmd, opts) ==
    [js EXCEPT !.pc = "scanner", !.status = "running", !.scanner_cmd = cmd, !.scan_opts = opts,
               !.scan_cwd = js.scan_dir]

\* process_local_repo up to its try; process_remote_repo up to its try
StartStep(js) ==
    IF js.mode = "remote" /\ ToSshUrlRaises(js.url)
    THEN {RaiseOut(js)}
    ELSE {Goto(js, "cp_get")}

\* the JSON bodies GET api/projects/search?projects=key may bring: the
\* paging of the server's project set, or the body of an error answer
\* (its status is not looked at), which holds no paging
SearchAnswers(key, projs) ==
    {[kind |-> "paging", total |-> IF key \in projs THEN 1 ELSE 0],
     [kind |-> "errors", total |-> 0]}

\* r.json().get("paging", {}).get("total", 0)
SearchTotal(body) == IF body.kind = "paging" THEN body.total ELSE 0

\* create_project, the search request and the branch on its answer; the
\* request or the decoding of a body that is not JSON may raise
CpGetStep(js, projs) ==
    LET l == Launch(js, "GET projects/search")
    IN  {Raise(Failed(l, "GET projects/search"))} \cup
        {IF SearchTotal(body) > 0
         THEN Goto(Bump(l, "exists"), "after_cp")
         ELSE Goto([l EXCEPT !.search = body.kind], "cp_post") :
            body \in SearchAnswers(js.key, projs)}

\* create_project, the create request at the server while the thread waits
\* in session.post: the server rejects a key it holds, and registers or
\* fails to register one it does not hold
CpPostServer(js, projs) ==
    LET l == Launch([js EXCEPT !.search = ""], "POST projects/create")
        error == [js |-> [l EXCEPT !.reply = "error"], projects |-> projs]
    IN  IF js.key \in projs THEN {error}
        ELSE {error, [js |-> [l EXCEPT !.reply = "ok"], projects |-> projs \cup {js.key}]}

\* create_project, the response of the create request: raise_for_status,
\* then bump_stat("created") and the return
CpPostReturn(js) ==
    LET back == [js EXCEPT !.reply = ""]
    IN  IF js.reply = "ok" THEN Goto(Bump(back, "created"), "after_cp")
        ELSE Raise(Failed(back, "POST projects/create"))

\* create_project from the create request on, run by a thread alone
CpPostStep(js, projs) ==
    {[js |-> CpPostReturn(s.js), projects |-> s.projects] : s \in CpPostServer(js, projs)}

AfterCpStep(js) ==
    {Goto(js, IF js.mode = "remote" THEN "clone" ELSE "extra")}

\* a command run with check=False and no handler around it: its exit status
\* is ignored, a missing executable raises
Unchecked(js, cmd, next) ==
    Tolerated(js, cmd, next) \cup {Raise(Failed(Launch(js, cmd), cmd))}

\* clone_or_update_repo: pull (check=False) or clone (check=True)
CloneStep(js) ==
    Unchecked(js, "git pull", "extra") \cup Checked(js, "git clone", "extra")

\* apply_extra_commands
ExtraStep(js) ==
    LET dir == ScanDir(RepoRoot, js.workdir)
        ran == [Launch(js, "bash extra_commands") EXCEPT !.extra_cwd = dir]
    IN  CASE js.override = "none" -> {Goto([js EXCEPT !.scan_dir = RepoRoot], "checkout")}
          [] js.override = "bare" -> {Goto([js EXCEPT !.scan_dir = dir], "checkout")}
          [] OTHER -> {Goto([ran EXCEPT !.scan_dir = dir], "checkout"),
                       Raise(Failed(ran, "bash extra_commands"))}

\* detect_branch: git branch -a names main or master, or else (also when it
\* failed) git rev-parse names the branch; every exception is caught.  The
\* result is the job after the calls, with whether git has run at all.
DetectBranch(js) ==
    LET b == Launch(js, "git branch -a")
        r == Launch(b, "git rev-parse")
        rf == Launch(Failed(b, "git branch -a"), "git rev-parse")
    IN  {[js |-> b, git_ran |-> TRUE],
         [js |-> r, git_ran |-> TRUE],
         [js |-> Failed(r, "git rev-parse"), git_ran |-> TRUE],
         [js |-> rf, git_ran |-> TRUE],
         [js |-> Failed(rf, "git rev-parse"), git_ran |-> FALSE]}

\* checkout_default_branch: detect_branch, then git checkout with check=False
\* on repo_root; the call raises when there is no git executable, which a
\* remote job has already run to clone or pull
CheckoutStep(js) ==
    UNION {LET l == Launch(d.js, "git checkout")
               at == [l EXCEPT !.checkout_dir = RepoRoot]
           IN  {Goto(at, "rename"), Goto(Failed(at, "git checkout"), "rename")}
               \cup (IF d.git_ran \/ js.mode = "remote" THEN {}
                      ELSE {Raise(Failed(l, "git checkout"))}) :
           d \in DetectBranch(js)}

\* rename_default_branch: every exception is caught
\* RenameStep without the try/except of rename_default_branch
RenameStep_Unguarded(js) == Checked(js, "POST project_branches/rename", "classify")

RenameStep(js) == Tolerated(js, "POST project_branches/rename", "classify")

\* detect_and_scan from classify_repo to the call of the executor
ClassifyStep(js) ==
    LET c == classify_repo(js.tree)
        ex == Dispatch(js.tree, c.type)
        j == [js EXCEPT !.repo_type = c.type, !.executor = ex, !.classify_dir = js.scan_dir]
    IN  CASE ex = "jmeter" -> {Goto(j, "jmx_update")}
          [] ex = "config" -> {Scanner(Bump(j, "config_only"), "sonar-scanner", {"iac"})}
          [] ex = "empty" -> {Return(Bump(j, "empty"))}
          [] ex = "scan_java" -> {Goto(j, "mvn_build")}
          [] ex = "scan_dotnet" -> {Goto(j, "dn_solution")}
          [] ex = "scan_python" -> {Goto(j, "py_test")}
          [] ex = "scan_go" -> {Goto(j, "go_test")}
          [] OTHER -> {Scanner(j, "sonar-scanner", {})}

\* the jmeter branch: the projects/update request, every exception caught
JmxUpdateStep(js) ==
    {Scanner(j, "sonar-scanner", {"jmx"}) : j \in Tolerated(js, "POST projects/update", "scanner")}

\* MavenBuildStep with a failed build logged and the scan run all the same
MavenBuildStep_Tolerant(js) ==
    {Scanner(j, "mvn sonar:sonar", {}) : j \in Tolerated(js, "mvn build", "scanner")}

\* scan_java up to run_scanner: run_maven_build, find_java_binaries,
\* find_jacoco_reports
MavenBuildStep(js) ==
    LET l == Launch(js, "mvn build")
    IN  {Raise(Failed(l, "mvn build")), Raise(Failed(l, "target/classes"))} \cup
        {Scanner(l, "mvn sonar:sonar", opts) : opts \in {{}, {"jacoco"}}}

\* scan_dotnet: an existing *.sln in repo_dir, or generate_temp_solution
DnSolutionStep(js) ==
    LET l == Launch(js, "dotnet new sln")
        made_sln == [l EXCEPT !.tree = Append(@, Entry("sonar-temp", ".sln", TRUE, TRUE))]
    IN  IF \E i \in RGlob(js.tree, ".sln") : js.tree[i].root
        THEN {Goto(js, "dn_begin")}
        ELSE {Goto(made_sln, "dn_add"), Raise(Failed(l, "dotnet new sln"))}

\* the same command started n times in a row
RECURSIVE LaunchTimes(_, _, _)
LaunchTimes(js, cmd, n) ==
    IF n = 0 THEN js ELSE LaunchTimes(Launch(js, cmd), cmd, n - 1)

\* generate_temp_solution after the solution is made: generate_csproj when
\* there is C# code and no project file
WithProject(t) ==
    IF find_csproj_files(t) = {} /\ RGlob(t, ".cs") # {}
    THEN Append(t, Entry("TempScannerProject", ".csproj", TRUE, TRUE))
    ELSE t

\* generate_temp_solution: one dotnet sln add per project file (check=True),
\* dotnet sln list; then the second linking loop of scan_dotnet (check=False)
DnAddStep(js) ==
    LET j == [js EXCEPT !.tree = WithProject(@)]
        n == Cardinality(find_csproj_files(j.tree))
        linked == LaunchTimes(j, "dotnet sln add", n)
        listed == Tolerated(linked, "dotnet sln list", "dn_begin")
        relinked == {LaunchTimes(l, "dotnet sln add", n) : l \in listed}
    IN  {Raise(Failed(LaunchTimes(j, "dotnet sln add", k), "dotnet sln add")) : k \in 1..n}
        \cup relinked
        \cup (IF n = 0 THEN {} ELSE {Failed(r, "dotnet sln add") : r \in relinked})

\* scan_dotnet: the begin step; its failure runs the fallback scanner
DnBeginStep(js) ==
    LET l == Launch(js, "dotnet sonarscanner begin")
    IN  {Goto(l, "dn_restore"),
         Scanner(Failed(l, "dotnet sonarscanner begin"), "sonar-scanner", {"fallback"})}

DnRestoreStep(js) == Tolerated(js, "dotnet restore", "dn_build")
\* DnBuildStep without the try/except around the build
DnBuildStep_Unguarded(js) == Checked(js, "dotnet build", "dn_test")

DnBuildStep(js) == Tolerated(js, "dotnet build", "dn_test")
DnTestStep(js) == Tolerated(js, "dotnet test", "dn_end")

\* DnEndStep with check=True: a failed end step reaches the except clause of
\* scan_dotnet, which runs the fallback scanner
DnEndStep_Checked(js) ==
    LET l == Launch(js, "dotnet sonarscanner end")
    IN  {Return(Bump(l, "scanned")),
         Scanner(Failed(l, "dotnet sonarscanner end"), "sonar-scanner", {"fallback"})}

\* scan_dotnet: the end step (check=False), bump_stat("scanned"), return
DnEndStep(js) ==
    {Return(Bump(j, "scanned")) : j \in Tolerated(js, "dotnet sonarscanner end", "done")}

\* TestThenScanner where the option follows the test result, not the file
TestThenScanner_OnSuccess(js, cmd, opt) ==
    {Scanner([j EXCEPT !.coverage_file = cov], "sonar-scanner",
             IF cmd \notin j.failures THEN {opt} ELSE {}) :
        j \in Tolerated(js, cmd, "scanner"), cov \in BOOLEAN}

\* scan_python / scan_go up to run_scanner: the test run, then the test of
\* coverage_file.exists()
TestThenScanner(js, cmd, opt) ==
    {Scanner([j EXCEPT !.coverage_file = cov], "sonar-scanner", IF cov THEN {opt} ELSE {}) :
        j \in Tolerated(js, cmd, "scanner"), cov \in BOOLEAN}

PyTestStep(js) == TestThenScanner(js, "pytest", "python.coverage")

\* GoTestStep without the try/except around go test
GoTestStep_Unguarded(js) ==
    {Scanner([j EXCEPT !.coverage_file = cov], "sonar-scanner",
             IF cov THEN {"go.coverage"} ELSE {}) :
        j \in {Goto(Launch(js, "go test"), "scanner")}, cov \in BOOLEAN}
    \cup {Raise(Failed(Launch(js, "go test"), "go test"))}

GoTestStep(js) == TestThenScanner(js, "go test", "go.coverage")

\* run_scanner
ScannerStep(js) ==
    LET l == Launch(js, js.scanner_cmd)
    IN  {Return(Bump(l, "scanned")), Raise(Failed(l, js.scanner_cmd))}

\* the except clause of process_local_repo / process_remote_repo:
\* bump_stat("failed"); the job function has still to return
ExceptBump(js) == Goto(Bump(js, "failed"), "return")

\* the except clause and the return after it, run by a thread alone
ExceptStep(js) == {Return(ExceptBump(js))}

\* every step of a job after create_project has returned
BodyPcs == {"after_cp", "clone", "extra", "checkout", "rename", "classify", "jmx_update",
            "mvn_build", "dn_solution", "dn_add", "dn_begin", "dn_restore", "dn_build",
            "dn_test", "dn_end", "py_test", "go_test", "scanner", "except"}

BodyStep(js) ==
    CASE js.pc = "after_cp" -> AfterCpStep(js)
      [] js.pc = "clone" -> CloneStep(js)
      [] js.pc = "extra" -> ExtraStep(js)
      [] js.pc = "checkout" -> CheckoutStep(js)
      [] js.pc = "rename" -> RenameStep(js)
      [] js.pc = "classify" -> ClassifyStep(js)
      [] js.pc = "jmx_update" -> JmxUpdateStep(js)
      [] js.pc = "mvn_build" -> MavenBuildStep(js)
      [] js.pc = "dn_solution" -> DnSolutionStep(js)
      [] js.pc = "dn_add" -> DnAddStep(js)
      [] js.pc = "dn_begin" -> DnBeginStep(js)
      [] js.pc = "dn_restore" -> DnRestoreStep(js)
      [] js.pc = "dn_build" -> DnBuildStep(js)
      [] js.pc = "dn_test" -> DnTestStep(js)
      [] js.pc = "dn_end" -> DnEndStep(js)
      [] js.pc = "py_test" -> PyTestStep(js)
      [] js.pc = "go_test" -> GoTestStep(js)
      [] js.pc = "scanner" -> ScannerStep(js)
      [] js.pc = "except" -> ExceptStep(js)
      [] OTHER -> {}

\* the bump_stat calls js2 has made since js1
NewBumps(js1, js2) == SubSeq(js2.bumps, Len(js1.bumps) + 1, Len(js2.bumps))

(***************************************************************************)
(* Repositories the job specifications draw from: one or more per branch   *)
(* of detect_and_scan                                                      *)
(***************************************************************************)
SampleTrees ==
    { <<>>,
      <<Entry("README", ".md", TRUE, TRUE), Entry("pom", ".xml", TRUE, TRUE)>>,
      <<Entry("plan", ".jmx", TRUE, TRUE)>>,
      <<Entry("main", ".py", FALSE, TRUE), Entry("plan", ".jmx", TRUE, TRUE)>>,
      <<Entry("a", ".yaml", TRUE, TRUE)>>,
      <<Entry("c", ".tf", TRUE, TRUE), Entry("B", ".YML", FALSE, TRUE)>>,
      <<Entry("pom", ".xml", TRUE, TRUE), Entry("App", ".java", FALSE, TRUE)>>,
      <<Entry("Prog", ".cs", FALSE, TRUE), Entry("main", ".py", FALSE, TRUE),
        Entry("pom", ".xml", TRUE, TRUE)>>,
      <<Entry("pom", ".xml", FALSE, TRUE), Entry("App", ".java", FALSE, TRUE)>>,
      <<Entry("Prog", ".cs", FALSE, TRUE)>>,
      <<Entry("app", ".sln", TRUE, TRUE), Entry("app", ".csproj", FALSE, TRUE),
        Entry("Prog", ".cs", FALSE, TRUE)>>,
      <<Entry("Prog", ".cs", FALSE, TRUE), Entry("app", ".csproj", FALSE, TRUE),
        Entry("app", ".csproj", FALSE, TRUE)>>,
      <<Entry("main", ".go", TRUE, TRUE), Entry("go", ".mod", TRUE, TRUE)>>,
      <<Entry("go", ".mod", TRUE, TRUE), Entry("main", ".py", FALSE, TRUE)>> }

Keys == {"k1", "k2"}

(***************************************************************************)
(* SpecJob: one job, step by step                                          *)
(***************************************************************************)
RunIdle ==
    /\ jobs = <<>>
    /\ workers = 1
    /\ rpc = "idle"
    /\ summary = "none"

LockIdle ==
    /\ lock = {}
    /\ threads = <<>>
    /\ made = ZeroStats

TreeIdle ==
    /\ tree = <<>>
    /\ tpc = "idle"
    /\ repo_type = ""
    /\ tags = {}
    /\ executor = ""

JobInit ==
    /\ TreeIdle
    /\ LockIdle
    /\ RunIdle
    /\ \E mode \in {"local", "remote"}, override \in Overrides, t \in SampleTrees :
         \E url \in (IF mode = "remote" THEN UrlKinds ELSE {"none"}) :
            \E wd \in (IF override = "none" THEN {NoWorkdir} ELSE Workdirs \cup {NoWorkdir}) :
               job = [NewJob(mode, url, "k1", override, t) EXCEPT !.workdir = wd]
    /\ projects \in {{}, {"k1"}}
    /\ stats = ZeroStats
    /\ calls = <<>>

\* one step of the job that touches only the job and the counters
JobTakes(pc, next) ==
    /\ job.pc = pc
    /\ job' \in next
    /\ stats' = BumpAll(stats, NewBumps(job, job'))
    /\ UNCHANGED <<projects, calls>>
    /\ UNCHANGED <<treeVars, lockVars, runVars>>

JStart == JobTakes("start", StartStep(job))
JCpGet == JobTakes("cp_get", CpGetStep(job, projects))
JCpPost ==
    /\ job.pc = "cp_post"
    /\ \E r \in CpPostStep(job, projects) :
         /\ job' = r.js
         /\ projects' = r.projects
    /\ stats' = BumpAll(stats, NewBumps(job, job'))
    /\ UNCHANGED calls
    /\ UNCHANGED <<treeVars, lockVars, runVars>>
JAfterCp == JobTakes("after_cp", AfterCpStep(job))
JClone == JobTakes("clone", CloneStep(job))
JExtra == JobTakes("extra", ExtraStep(job))
JCheckout == JobTakes("checkout", CheckoutStep(job))
JRename == JobTakes("rename", RenameStep(job))
JClassify == JobTakes("classify", ClassifyStep(job))
JJmxUpdate == JobTakes("jmx_update", JmxUpdateStep(job))
JMavenBuild == JobTakes("mvn_build", MavenBuildStep(job))
JDnSolution == JobTakes("dn_solution", DnSolutionStep(job))
JDnAdd == JobTakes("dn_add", DnAddStep(job))
JDnBegin == JobTakes("dn_begin", DnBeginStep(job))
JDnRestore == JobTakes("dn_restore", DnRestoreStep(job))
JDnBuild == JobTakes("dn_build", DnBuildStep(job))
JDnTest == JobTakes("dn_test", DnTestStep(job))
JDnEnd == JobTakes("dn_end", DnEndStep(job))
JPyTest == JobTakes("py_test", PyTestStep(job))
JGoTest == JobTakes("go_test", GoTestStep(job))
JScanner == JobTakes("scanner", ScannerStep(job))
JExcept == JobTakes("except", ExceptStep(job))

JobNext ==
    \/ JStart \/ JCpGet \/ JCpPost \/ JAfterCp \/ JClone \/ JExtra \/ JCheckout
    \/ JRename \/ JClassify \/ JJmxUpdate \/ JMavenBuild \/ JDnSolution \/ JDnAdd
    \/ JDnBegin \/ JDnRestore \/ JDnBuild \/ JDnTest \/ JDnEnd \/ JPyTest
    \/ JGoTest \/ JScanner \/ JExcept

SpecJob == JobInit /\ [][JobNext]_vars

JobIdle ==
    /\ job = NewJob("local", "none", "k1", "none", <<>>)
    /\ projects = {}
    /\ stats = ZeroStats
    /\ calls = <<>>

(***************************************************************************)
(* SpecRegistrar: create_project called up to MaxCalls times, one call     *)
(* after the other, against one server                                     *)
(***************************************************************************)
NoCall == [NewJob("local", "none", "k1", "none", <<>>) EXCEPT !.pc = "idle"]

RegistrarInit ==
    /\ TreeIdle
    /\ LockIdle
    /\ RunIdle
    /\ job = NoCall
    /\ projects \in SUBSET Keys
    /\ stats = ZeroStats
    /\ calls = <<>>

\* create_project(key, name) is entered
CallCreateProject ==
    /\ job.pc = "idle"
    /\ Len(calls) < MaxCalls
    /\ \E k \in Keys : job' = Goto(NewJob("local", "none", k, "none", <<>>), "cp_get")
    /\ UNCHANGED <<projects, stats, calls>>
    /\ UNCHANGED <<treeVars, lockVars, runVars>>

\* the call has returned (after_cp) or raised (except): it is recorded with
\* the requests it sent and the server's projects as it leaves them
EndCreateProject ==
    /\ job.pc \in {"after_cp", "except"}
    /\ calls' = Append(calls, [key |-> job.key, raised |-> job.pc = "except",
                               launched |-> job.launched, bumps |-> job.bumps,
                               projects |-> projects])
    /\ job' = NoCall
    /\ UNCHANGED <<projects, stats>>
    /\ UNCHANGED <<treeVars, lockVars, runVars>>

RegistrarNext == CallCreateProject \/ JCpGet \/ JCpPost \/ EndCreateProject

SpecRegistrar == RegistrarInit /\ [][RegistrarNext]_vars


(***************************************************************************)
(* Spec: main and run_jobs over a list of up to NJobs jobs.  A job takes   *)
(* its steps up to the end of create_project one by one; the rest of the   *)
(* job (BodyStep until it returns) touches nothing but the job's own       *)
(* checkout and the counters, and is taken from one bump_stat call to the  *)
(* next.                                                                   *)
(***************************************************************************)
\* no step of the code reads which commands were started or which failed so
\* far: the jobs that differ in nothing else end the same way
RECURSIVE Finals(_)
Finals(S) ==
    IF \A js \in S : js.pc = "done"
    THEN S
    ELSE Finals({js \in S : js.pc = "done"} \cup
                UNION {{[n EXCEPT !.launched = <<>>, !.failures = {}] : n \in BodyStep(js)} :
                          js \in {r \in S : r.pc # "done"}})

\* what a job can end with once create_project has returned: the bump_stat
\* calls made and how the job function ended
BodyOutcomes ==
    [mode \in {"local", "remote"} |->
        {[bumps |-> f.bumps, status |-> f.status] :
            f \in Finals({Goto(NewJob(mode, "github", "k1", o, t), "after_cp") :
                            o \in Overrides, t \in SampleTrees})}]

RunnerUrls == {"github", "stash_other"}

\* process_remote_repo derives the key from the result of to_ssh_url: a URL
\* on which to_ssh_url raises yields no key, and the job keeps the first
RunnerKeys(url) == IF ToSshUrlRaises(url) THEN {"k1"} ELSE Keys

Max(a, b) == IF a >= b THEN a ELSE b

Pending(i) == jobs[i].status = "pending"
Running(i) == jobs[i].status = "running"
Ended(i) == jobs[i].status \in {"returned", "raised"}

\* a job of the list: the fields of NewJob that the steps up to the end of
\* create_project read or write; what the rest of the job reads is in
\* BodyOutcomes
RunnerJob(mode, url, key) ==
    [pc |-> "start", status |-> "pending", mode |-> mode, url |-> url, key |-> key,
     launched |-> <<>>, failures |-> {}, bumps |-> <<>>,
     worker |-> {}, takes |-> 0, search |-> "", reply |-> ""]

Init ==
    /\ TreeIdle
    /\ LockIdle
    /\ job = NoCall
    /\ calls = <<>>
    /\ stats = ZeroStats
    /\ projects = {"k1"}
    /\ workers \in 0..MaxWorkers
    /\ \E mode \in {"local", "remote"}, n \in 0..NJobs :
         jobs \in [1..n -> UNION {{RunnerJob(mode, url, key) :
                                       key \in RunnerKeys(url)} :
                                   url \in (IF mode = "remote" THEN RunnerUrls
                                            ELSE {"none"})}]
    /\ rpc = "main"
    /\ summary = "none"

\* run_jobs: workers = max(1, workers) and the choice of the path
RunJobsEnter ==
    /\ rpc = "main"
    /\ rpc' = IF Max(1, workers) = 1 \/ Len(jobs) <= 1 THEN "serial" ELSE "pool"
    /\ UNCHANGED <<jobs, workers, summary, projects, stats>>
    /\ UNCHANGED <<treeVars, lockVars, job, calls>>

\* the thread that runs the jobs of the serial loop
MainThread == 0

\* the serial loop without its order: any pending job may be called
SerialMayStart_Unordered(i) ==
    /\ rpc = "serial"
    /\ Pending(i)

\* the serial loop calls the next job once the one before has returned
SerialMayStart(i) ==
    /\ rpc = "serial"
    /\ Pending(i)
    /\ \A j \in 1..(i - 1) : jobs[j].status = "returned"

\* the threads of ThreadPoolExecutor(max_workers=workers)
PoolWorkers == 1..Max(1, workers)

\* a pool whose workers take work while they still run a job
IdleWorkers_All == PoolWorkers

\* a worker is idle when it runs no job: it calls one work item and takes
\* the next from the queue only when that call has ended
IdleWorkers == {w \in PoolWorkers : \A j \in DOMAIN jobs : w \notin jobs[j].worker}

\* an idle pool worker takes the oldest submitted job
PoolMayStart(i) ==
    /\ rpc = "pool"
    /\ Pending(i)
    /\ \A j \in 1..(i - 1) : ~Pending(j)
    /\ IdleWorkers # {}

\* the thread that calls job i now: the caller of run_jobs on the serial
\* path, else an idle pool worker; the workers run the same loop, so the
\* model gives the job to the lowest idle one
Takers(i) ==
    IF rpc = "serial" THEN {MainThread}
    ELSE {w \in IdleWorkers : \A v \in IdleWorkers : w <= v}

\* leaving the with block: shutdown(wait=True) joins every worker
PoolJoined_AnyDone == \E i \in DOMAIN jobs : Ended(i)

PoolJoined == \A i \in DOMAIN jobs : Ended(i)

JobUpdate(i, next) ==
    /\ jobs' = [jobs EXCEPT ![i] = next]
    /\ stats' = BumpAll(stats, NewBumps(jobs[i], next))

StartJob(i) ==
    /\ SerialMayStart(i) \/ PoolMayStart(i)
    /\ \E next \in StartStep(jobs[i]), w \in Takers(i) :
         JobUpdate(i, [next EXCEPT !.worker = IF next.pc = "done" THEN {} ELSE {w},
                                   !.takes = @ + 1])
    /\ UNCHANGED <<workers, rpc, summary, projects>>
    /\ UNCHANGED <<treeVars, lockVars, job, calls>>

JobCpGet(i) ==
    /\ Running(i)
    /\ jobs[i].pc = "cp_get"
    /\ \E next \in CpGetStep(jobs[i], projects) : JobUpdate(i, next)
    /\ UNCHANGED <<workers, rpc, summary, projects>>
    /\ UNCHANGED <<treeVars, lockVars, job, calls>>

\* the create request of job i reaches the server.  When the server has
\* registered the key the thread still waits for the response and the other
\* threads run; a request that failed has changed nothing, and its exception
\* is taken with it
JobCpPost(i) ==
    /\ Running(i)
    /\ jobs[i].pc = "cp_post"
    /\ jobs[i].reply = ""
    /\ \E r \in CpPostServer(jobs[i], projects) :
         /\ JobUpdate(i, IF r.js.reply = "ok" THEN r.js ELSE CpPostReturn(r.js))
         /\ projects' = r.projects
    /\ UNCHANGED <<workers, rpc, summary>>
    /\ UNCHANGED <<treeVars, lockVars, job, calls>>

\* the response of the create request is back in the thread of job i
JobCpPostReturn(i) ==
    /\ Running(i)
    /\ jobs[i].pc = "cp_post"
    /\ jobs[i].reply = "ok"
    /\ JobUpdate(i, CpPostReturn(jobs[i]))
    /\ UNCHANGED <<workers, rpc, summary, projects>>
    /\ UNCHANGED <<treeVars, lockVars, job, calls>>

\* the bump_stat calls job i has made since its create_project returned,
\* which made one
BodyBumps(i) == Tail(jobs[i].bumps)

\* the rest of job i up to its next bump_stat call; after the last one the
\* job function has still to return
JobBody(i) ==
    /\ Running(i)
    /\ jobs[i].pc = "after_cp"
    /\ \E o \in BodyOutcomes[jobs[i].mode] :
         LET n == Len(BodyBumps(i)) + 1
         IN  /\ n <= Len(o.bumps)
             /\ SubSeq(o.bumps, 1, n - 1) = BodyBumps(i)
             /\ o.status = "returned"
             /\ JobUpdate(i, [jobs[i] EXCEPT !.bumps = Append(@, o.bumps[n]),
                                             !.pc = IF n = Len(o.bumps) THEN "return"
                                                    ELSE @])
    /\ UNCHANGED <<workers, rpc, summary, projects>>
    /\ UNCHANGED <<treeVars, lockVars, job, calls>>

JobExcept(i) ==
    /\ Running(i)
    /\ jobs[i].pc = "except"
    /\ JobUpdate(i, ExceptBump(jobs[i]))
    /\ UNCHANGED <<workers, rpc, summary, projects>>
    /\ UNCHANGED <<treeVars, lockVars, job, calls>>

\* the job function of job i returns to the thread that called it
JobReturn(i) ==
    /\ Running(i)
    /\ jobs[i].pc = "return"
    /\ JobUpdate(i, Return(jobs[i]))
    /\ UNCHANGED <<workers, rpc, summary, projects>>
    /\ UNCHANGED <<treeVars, lockVars, job, calls>>

\* serial path: the exception of a job leaves the loop, run_jobs and main
SerialRaise ==
    /\ rpc = "serial"
    /\ \E i \in DOMAIN jobs : jobs[i].status = "raised"
    /\ rpc' = "crashed"
    /\ UNCHANGED <<jobs, workers, summary, projects, stats>>
    /\ UNCHANGED <<treeVars, lockVars, job, calls>>

RunJobsReturn ==
    /\ \/ rpc = "serial" /\ \A i \in DOMAIN jobs : jobs[i].status = "returned"
       \/ rpc = "pool" /\ PoolJoined
    /\ rpc' = "returned"
    /\ UNCHANGED <<jobs, workers, summary, projects, stats>>
    /\ UNCHANGED <<treeVars, lockVars, job, calls>>

\* main prints the summary
PrintSummary ==
    /\ rpc = "returned"
    /\ rpc' = "summary"
    /\ summary' = stats
    /\ UNCHANGED <<jobs, workers, projects, stats>>
    /\ UNCHANGED <<treeVars, lockVars, job, calls>>

Next ==
    \/ RunJobsEnter
    \/ \E i \in DOMAIN jobs : StartJob(i)
    \/ \E i \in DOMAIN jobs : JobCpGet(i)
    \/ \E i \in DOMAIN jobs : JobCpPost(i)
    \/ \E i \in DOMAIN jobs : JobCpPostReturn(i)
    \/ \E i \in DOMAIN jobs : JobBody(i)
    \/ \E i \in DOMAIN jobs : JobExcept(i)
    \/ \E i \in DOMAIN jobs : JobReturn(i)
    \/ SerialRaise
    \/ RunJobsReturn
    \/ PrintSummary

Spec == Init /\ [][Next]_vars

(***************************************************************************)
(* SpecTree: classification and dispatch of every tree up to MaxFiles      *)
(***************************************************************************)
TreeInit ==
    /\ tree \in Trees
    /\ tpc = "init"
    /\ repo_type = ""
    /\ tags = {}
    /\ executor = ""
    /\ JobIdle
    /\ RunIdle
    /\ LockIdle

Classify ==
    /\ tpc = "init"
    /\ LET c == classify_repo(tree)
       IN  /\ repo_type' = c.type
           /\ tags' = c.tags
    /\ tpc' = "classified"
    /\ UNCHANGED <<tree, executor>>
    /\ UNCHANGED <<jobVars, lockVars, runVars>>

DispatchStep ==
    /\ tpc = "classified"
    /\ executor' = Dispatch(tree, repo_type)
    /\ tpc' = "dispatched"
    /\ UNCHANGED <<tree, repo_type, tags>>
    /\ UNCHANGED <<jobVars, lockVars, runVars>>

TreeNext == Classify \/ DispatchStep

SpecTree == TreeInit /\ [][TreeNext]_vars

(***************************************************************************)
(* SpecStats: concurrent callers of bump_stat, statement by statement      *)
(***************************************************************************)
IdleThread(left) == [pc |-> "idle", key |-> "", read |-> 0, left |-> left]

StatsInit ==
    /\ TreeIdle
    /\ RunIdle
    /\ job = NoCall
    /\ projects = {}
    /\ calls = <<>>
    /\ stats = ZeroStats
    /\ lock = {}
    /\ made = ZeroStats
    /\ \E n \in 1..MaxWorkers : threads \in [1..n -> {IdleThread(c) : c \in 0..MaxBumps}]

ThreadUpdate(t, next) == threads' = [threads EXCEPT ![t] = next]

\* the counters the threads of SpecStats bump: one that jobs bump on
\* their way and one they bump at their end
BumpKeys == {"exists", "failed"}

\* a thread calls bump_stat(key)
CallBumpStat(t) ==
    /\ threads[t].pc = "idle"
    /\ threads[t].left > 0
    /\ \E k \in BumpKeys :
         /\ ThreadUpdate(t, [threads[t] EXCEPT !.pc = "acquire", !.key = k, !.left = @ - 1])
         /\ made' = [made EXCEPT ![k] = @ + 1]
    /\ UNCHANGED <<stats, lock>>
    /\ UNCHANGED <<treeVars, runVars, job, projects, calls>>

\* entering the with block without waiting for the lock
MayAcquire_NoLock == TRUE

\* with stats_lock: the lock is free
MayAcquire == lock = {}

AcquireLock(t) ==
    /\ threads[t].pc = "acquire"
    /\ MayAcquire
    /\ lock' = lock \cup {t}
    /\ ThreadUpdate(t, [threads[t] EXCEPT !.pc = "read"])
    /\ UNCHANGED <<stats, made>>
    /\ UNCHANGED <<treeVars, runVars, job, projects, calls>>

\* stats[key] += inc, the load of stats[key]
ReadCounter(t) ==
    /\ threads[t].pc = "read"
    /\ ThreadUpdate(t, [threads[t] EXCEPT !.pc = "write", !.read = stats[threads[t].key]])
    /\ UNCHANGED <<stats, lock, made>>
    /\ UNCHANGED <<treeVars, runVars, job, projects, calls>>

\* stats[key] += inc, the store of the sum
WriteCounter(t) ==
    /\ threads[t].pc = "write"
    /\ stats' = [stats EXCEPT ![threads[t].key] = threads[t].read + 1]
    /\ ThreadUpdate(t, [threads[t] EXCEPT !.pc = "release"])
    /\ UNCHANGED <<lock, made>>
    /\ UNCHANGED <<treeVars, runVars, job, projects, calls>>

\* leaving the with block releases the lock; bump_stat returns
ReleaseLock(t) ==
    /\ threads[t].pc = "release"
    /\ lock' = lock \ {t}
    /\ ThreadUpdate(t, IdleThread(threads[t].left))
    /\ UNCHANGED <<stats, made>>
    /\ UNCHANGED <<treeVars, runVars, job, projects, calls>>

StatsNext ==
    \/ \E t \in DOMAIN threads : CallBumpStat(t)
    \/ \E t \in DOMAIN threads : AcquireLock(t)
    \/ \E t \in DOMAIN threads : ReadCounter(t)
    \/ \E t \in DOMAIN threads : WriteCounter(t)
    \/ \E t \in DOMAIN threads : ReleaseLock(t)

SpecStats == StatsInit /\ [][StatsNext]_vars

(***************************************************************************)
(* Claims about classify_repo and the dispatch (SpecTree)                  *)
(***************************************************************************)
HasJmxFile(t) == \E i \in 1..Len(t) : t[i].is_file /\ Lower(t[i].suffix) = ".jmx"
HasCodeFile(t) == \E i \in 1..Len(t) : t[i].is_file /\ Lower(t[i].suffix) \in code_ext
HasYamlFile(t) == \E i \in 1..Len(t) : t[i].is_file /\ Lower(t[i].suffix) \in yaml_ext
HasTfFile(t) == \E i \in 1..Len(t) : t[i].is_file /\ Lower(t[i].suffix) \in tf_ext

\* C5: every tree that holds both a .jmx file and a file with a source-code
\* extension, in any traversal order, is classified "jmeter", never "code".
C5_JmeterBeatsCode ==
    (tpc # "init" /\ HasJmxFile(tree) /\ HasCodeFile(tree)) => repo_type = "jmeter"

KindTags(t) ==
    (IF HasYamlFile(t) THEN {"yaml"} ELSE {}) \cup (IF HasTfFile(t) THEN {"terraform"} ELSE {})

\* C6 as stated: a tree whose only recognized files are .yaml/.yml/.tf files is
\* classified "config" and its tag set holds yaml iff a YAML file exists,
\* terraform iff a .tf file exists, and nothing else; a tree with no recognized
\* file is classified "empty" with no tags.
C6_TagsExactlyKinds ==
    (tpc # "init" /\ ~HasJmxFile(tree) /\ ~HasCodeFile(tree)) =>
        IF HasYamlFile(tree) \/ HasTfFile(tree)
        THEN repo_type = "config" /\ tags = KindTags(tree)
        ELSE repo_type = "empty" /\ tags = {}

\* C6 amended: as above, but the tag set of a "config" tree is the marker tag
\* "config" together with yaml iff a YAML file exists and terraform iff a .tf
\* file exists, and nothing else.
C6_ConfigTags ==
    (tpc # "init" /\ ~HasJmxFile(tree) /\ ~HasCodeFile(tree)) =>
        IF HasYamlFile(tree) \/ HasTfFile(tree)
        THEN repo_type = "config" /\ tags = {"config"} \cup KindTags(tree)
        ELSE repo_type = "empty" /\ tags = {}

C6_Witness ==
    /\ tpc = "classified"
    /\ Len(tree) = MaxFiles
    /\ HasTfFile(tree) /\ ~HasYamlFile(tree)
    /\ \E i \in 1..Len(tree) : tree[i].suffix = ".md"
    /\ repo_type = "config"
    /\ tags = {"config", "terraform"}

\* C7: a repository classified as code with pom.xml at its scan root is
\* dispatched to scan_java, whatever other source files the tree holds.
C7_PomSelectsJava ==
    (tpc = "dispatched" /\ repo_type = "code" /\ ExistsAtRoot(tree, "pom", ".xml"))
        => executor = "scan_java"

C7_Witness ==
    /\ tpc = "dispatched"
    /\ repo_type = "code"
    /\ ExistsAtRoot(tree, "pom", ".xml")
    /\ RGlob(tree, ".cs") # {}
    /\ RGlob(tree, ".py") # {}
    /\ executor = "scan_java"

(***************************************************************************)
(* Claims about the executors (SpecJob)                                    *)
(***************************************************************************)
InSeq(x, q) == \E i \in 1..Len(q) : q[i] = x
Count(x, q) == Cardinality({i \in 1..Len(q) : q[i] = x})

ScannerCmds == {"sonar-scanner", "mvn sonar:sonar", "dotnet sonarscanner begin",
                "dotnet sonarscanner end"}

MavenFailed ==
    /\ job.executor = "scan_java"
    /\ job.failures \cap {"mvn build", "target/classes"} # {}

\* C8: in scan_java, once the Maven build+test command has failed, or has left
\* no compiled classes directory, no scanner process is ever launched, scanned
\* is never incremented, and the job ends with failed incremented (once).
C8_FailedBuildNoScan ==
    MavenFailed =>
        /\ \A c \in ScannerCmds : ~InSeq(c, job.launched)
        /\ ~InSeq("scanned", job.bumps)
        /\ stats["scanned"] = 0
        /\ job.pc \in {"except", "done"}
        /\ job.pc = "done" =>
              (job.status = "returned" /\ Count("failed", job.bumps) = 1 /\ stats["failed"] = 1)

C8_Witness ==
    /\ job.pc = "done"
    /\ job.executor = "scan_java"
    /\ "mvn build" \in job.failures
    /\ InSeq("mvn build", job.launched)
    /\ stats["failed"] = 1

BeginSucceeded ==
    /\ job.executor = "scan_dotnet"
    /\ InSeq("dotnet sonarscanner begin", job.launched)
    /\ "dotnet sonarscanner begin" \notin job.failures

\* the commands launched after the begin step
AfterBegin ==
    LET i == CHOOSE n \in 1..Len(job.launched) : job.launched[n] = "dotnet sonarscanner begin"
    IN  SubSeq(job.launched, i + 1, Len(job.launched))

\* C9: in scan_dotnet, once the begin step has succeeded, restore, build and
\* test are each attempted whatever the earlier ones did, the end step is
\* launched after them, and the job is never marked failed.
C9_EndAlwaysRuns ==
    BeginSucceeded =>
        /\ job.pc \in {"dn_restore", "dn_build", "dn_test", "dn_end", "done"}
        /\ ~InSeq("failed", job.bumps)
        /\ stats["failed"] = 0
        /\ job.pc = "done" =>
              AfterBegin = <<"dotnet restore", "dotnet build", "dotnet test",
                             "dotnet sonarscanner end">>

C9_Witness ==
    /\ BeginSucceeded
    /\ job.pc = "done"
    /\ {"dotnet restore", "dotnet build", "dotnet test"} \subseteq job.failures
    /\ InSeq("dotnet sonarscanner end", job.launched)

(***************************************************************************)
(* Claims about create_project (SpecRegistrar)                             *)
(***************************************************************************)
\* C10: when create_project is called twice in sequence with the same key and
\* the first call returned (the project was found or the server recorded its
\* creation), the second call sends no create request, so the two calls send
\* at most one; the second call returns having incremented exists and not
\* created, and leaves the server's project set as the first call left it.
C10_SecondCallCreatesNothing ==
    \A i \in 1..(Len(calls) - 1) :
        (calls[i].key = calls[i + 1].key /\ ~calls[i].raised) =>
            /\ ~InSeq("POST projects/create", calls[i + 1].launched)
            /\ Count("POST projects/create", calls[i].launched)
                 + Count("POST projects/create", calls[i + 1].launched) <= 1
            /\ ~calls[i + 1].raised => calls[i + 1].bumps = <<"exists">>
            /\ ~InSeq("created", calls[i + 1].bumps)
            /\ calls[i + 1].projects = calls[i].projects

(***************************************************************************)
(* Claims about run_jobs and main (Spec)                                   *)
(***************************************************************************)
TerminalSum(st) == st["scanned"] + st["config_only"] + st["empty"] + st["failed"]

\* C1: after run_jobs has returned for a list of N jobs, the terminal counters
\* satisfy scanned + config_only + empty + failed = N.
C1_TerminalCountersSumToN ==
    rpc \in {"returned", "summary"} => TerminalSum(stats) = Len(jobs)

\* C2: for every worker bound, an exception that escapes one job never keeps a
\* sibling from being run: once the run has ended (summary printed, or main
\* left by the exception) no job is left unstarted.
C2_RaiseNeverStopsSiblings ==
    rpc \in {"summary", "crashed"} => \A i \in DOMAIN jobs : Ended(i)

\* C3: whenever a job throws, in the serial and in the pooled path, failed is
\* incremented exactly once for that job.
C3_ThrowCountsFailedOnce ==
    \A i \in DOMAIN jobs :
        jobs[i].status = "raised" => Count("failed", jobs[i].bumps) = 1

\* C4: the summary is printed only after every job handed to run_jobs has
\* returned or raised; none is running or unstarted then, for any worker bound.
C4_SummaryAfterAllJobs ==
    rpc = "summary" => \A i \in DOMAIN jobs : Ended(i)

C4_Witness ==
    /\ rpc = "summary"
    /\ Len(jobs) = NJobs
    /\ Max(1, workers) > 1
    /\ jobs[1].status = "returned"
    /\ \E i \in DOMAIN jobs : jobs[i].status = "raised"
    /\ summary = stats

(***************************************************************************)
(* Claims about scan_go (SpecJob)                                          *)
(***************************************************************************)
GoTestFailed == job.executor = "scan_go" /\ "go test" \in job.failures

\* C11 as stated: for a code repository routed to scan_go whose go test step
\* fails, the scanner is still invoked, the Go coverage option is not attached
\* to its command, and scanned is incremented while failed is not.
C11_FailedTestScansWithoutCoverage ==
    (GoTestFailed /\ job.pc = "done") =>
        /\ InSeq("sonar-scanner", job.launched)
        /\ "go.coverage" \notin job.scan_opts
        /\ Count("scanned", job.bumps) = 1
        /\ ~InSeq("failed", job.bumps)

\* C11 amended: when go test fails the scanner is still invoked; the coverage
\* option is attached iff coverage.out exists when the command is built (so
\* it is absent when the failed run left no file); scanned is incremented and
\* failed is not iff the scanner itself exits 0, otherwise failed is
\* incremented once and scanned is not.
C11_FailedTestStillScans ==
    GoTestFailed =>
        /\ job.pc \in {"scanner", "except", "done"}
        /\ job.scanner_cmd = "sonar-scanner"
        /\ ("go.coverage" \in job.scan_opts) <=> job.coverage_file
        /\ job.pc \in {"except", "done"} => InSeq("sonar-scanner", job.launched)
        /\ job.pc = "done" =>
              IF "sonar-scanner" \in job.failures
              THEN Count("failed", job.bumps) = 1 /\ ~InSeq("scanned", job.bumps)
              ELSE Count("scanned", job.bumps) = 1 /\ ~InSeq("failed", job.bumps)

C11_Witness ==
    /\ GoTestFailed
    /\ job.pc = "done"
    /\ ~job.coverage_file
    /\ job.scan_opts = {}
    /\ InSeq("sonar-scanner", job.launched)
    /\ stats["scanned"] = 1 /\ stats["failed"] = 0

(***************************************************************************)
(* Claims about run_jobs (Spec)                                            *)
(***************************************************************************)
SerialPath == Max(1, workers) = 1 \/ Len(jobs) <= 1
InProgress == {i \in DOMAIN jobs : Running(i)}

\* C12: when the worker bound is at most 1 or there is at most one job,
\* run_jobs executes the jobs strictly one at a time in list order: a job is
\* started only when every job before it has terminated, no two jobs are in
\* progress together, and all of them run on the calling thread.
C12_SerialOneAtATime ==
    SerialPath =>
        /\ Cardinality(InProgress) <= 1
        /\ \A i, j \in DOMAIN jobs : (i < j /\ ~Pending(j)) => Ended(i)
        /\ \A i \in DOMAIN jobs : Running(i) => jobs[i].worker = {MainThread}

C12_Witness ==
    /\ SerialPath
    /\ Len(jobs) >= 2
    /\ jobs[1].status = "returned"
    /\ Running(2)
    /\ jobs[2].pc = "return"
    /\ \A i \in 3..Len(jobs) : Pending(i)

PoolPath == ~SerialPath /\ rpc # "main"

\* at most the bound of jobs run, each on a worker of its own
PoolWithinBound ==
    PoolPath =>
        /\ Cardinality(InProgress) <= Max(1, workers)
        /\ \A i \in InProgress : \E w \in PoolWorkers : jobs[i].worker = {w}
        /\ \A i, j \in InProgress : i # j => jobs[i].worker # jobs[j].worker
        /\ \A i \in DOMAIN jobs : ~Running(i) => jobs[i].worker = {}
        /\ rpc \in {"returned", "summary"} => \A i \in DOMAIN jobs : Ended(i)

\* a job is taken once: the calls of a job number one once it has left the
\* queue and none before
TakenOnce ==
    \A i \in DOMAIN jobs : jobs[i].takes = (IF Pending(i) THEN 0 ELSE 1)

\* C18: on the pooled path (bound W > 1, more than one job) never more than W
\* jobs are in progress, a worker runs one job to completion before it takes
\* the next, and every submitted job is taken by exactly one worker exactly
\* once and has ended when run_jobs returns.
C18_PoolBoundAndOnce == PoolWithinBound /\ (PoolPath => TakenOnce)

C18_Witness ==
    /\ PoolPath
    /\ Len(jobs) > Max(1, workers)
    /\ Cardinality(InProgress) = Max(1, workers)
    /\ \E i \in InProgress : jobs[i].pc = "return"
    /\ \E i \in DOMAIN jobs : Pending(i)

(***************************************************************************)
(* Claims about one job (SpecJob)                                          *)
(***************************************************************************)
TerminalBumps == Count("scanned", job.bumps) + Count("config_only", job.bumps)
                 + Count("empty", job.bumps) + Count("failed", job.bumps)
RegistrarBumps == Count("created", job.bumps) + Count("exists", job.bumps)

RegistrarCmds == {"GET projects/search", "POST projects/create"}
CpReturned == InSeq("created", job.bumps) \/ InSeq("exists", job.bumps)
CpFailed == job.failures \cap RegistrarCmds # {}
\* the server has answered the existence query with an error body
QueryRejected == job.pc = "cp_post" /\ job.search = "errors"

\* nothing is launched before create_project has returned, and a registrar
\* request that raised leaves the job with failed and nothing else run
RegistrarFirst ==
    /\ (\E i \in DOMAIN job.launched : job.launched[i] \notin RegistrarCmds)
          => CpReturned
    /\ CpFailed =>
          /\ job.pc \in {"except", "done"}
          /\ \A i \in DOMAIN job.launched : job.launched[i] \in RegistrarCmds
          /\ job.repo_type = "" /\ job.executor = "" /\ job.scanner_cmd = ""
          /\ job.pc = "done" => job.bumps = <<"failed">>

\* C17: within a job no scanner process (sonar-scanner, mvn sonar:sonar,
\* dotnet sonarscanner begin), and no other command either, is launched
\* unless create_project has returned without error; if the existence query
\* or the creation fails, the job is marked failed and no synchronization,
\* classification or scan step runs: a request that raised leaves the job
\* with failed and nothing else run, and a query answered with an error is
\* followed by the except clause only.
C17_NothingBeforeRegistrar ==
    [](RegistrarFirst) /\ [][QueryRejected => job'.pc = "except"]_vars

RenameFailed == "POST project_branches/rename" \in job.failures
UpdateFailed == "POST projects/update" \in job.failures
\* the failures after which the code raises or skips the scan
FatalFailures ==
    job.failures \ {"POST project_branches/rename", "POST projects/update", "git pull",
                    "git branch -a", "git rev-parse", "git checkout", "dotnet sln list",
                    "dotnet restore", "dotnet build", "dotnet test",
                    "dotnet sonarscanner end", "pytest", "go test"}

\* C20: a failure of the default-branch rename or of the jmeter metadata
\* update never increments failed and never stops the job: after a failed
\* rename the job goes on to classification and dispatch, after a failed
\* update the scanner is still invoked, and failed is incremented only when
\* some other, fatal step has failed.
C20_RenameAndUpdateTolerated ==
    /\ RenameFailed =>
          /\ job.pc # "rename"
          /\ job.pc \in {"except", "done"} => job.repo_type # ""
    /\ UpdateFailed =>
          /\ job.executor = "jmeter"
          /\ job.pc \in {"scanner", "except", "done"}
          /\ job.pc \in {"except", "done"} => InSeq("sonar-scanner", job.launched)
    /\ (RenameFailed \/ UpdateFailed) =>
          /\ job.pc = "except" => FatalFailures # {}
          /\ InSeq("failed", job.bumps) => FatalFailures # {}

C20_Witness ==
    /\ RenameFailed /\ UpdateFailed
    /\ job.pc = "done"
    /\ job.status = "returned"
    /\ InSeq("sonar-scanner", job.launched)
    /\ stats["scanned"] = 1 /\ stats["failed"] = 0

\* C13: every job, in every category and failure combination, increments
\* exactly one of scanned, config_only, empty, failed and at most one of
\* created, exists.
C13_OneTerminalCounterPerJob ==
    job.pc = "done" => (TerminalBumps = 1 /\ RegistrarBumps <= 1)

(***************************************************************************)
(* Claims about create_project under concurrency (Spec)                    *)
(***************************************************************************)
RECURSIVE SumCreates(_)
SumCreates(S) ==
    IF S = {} THEN 0
    ELSE LET i == CHOOSE x \in S : TRUE
         IN  Count("POST projects/create", jobs[i].launched) + SumCreates(S \ {i})

JobsOf(k) == {i \in DOMAIN jobs : jobs[i].key = k}

\* C14: across a whole run, also when two jobs with the same key run
\* concurrently, at most one create request is sent per key: no two jobs of a
\* key have both found it absent and stand before the create request, and
\* the create requests of a key never number more than one.
C14_OneCreatePerKey ==
    \A k \in Keys :
        /\ Cardinality({i \in JobsOf(k) : Running(i) /\ jobs[i].pc = "cp_post"}) <= 1
        /\ SumCreates(JobsOf(k)) <= 1

(***************************************************************************)
(* Claims about scan_dotnet failures (SpecJob)                             *)
(***************************************************************************)
\* C15: in the .NET path a failure before the end step, the failure to
\* prepare or generate the solution and the failure of the begin step
\* included, leads to the generic sonar-scanner fallback: the job never ends
\* failed without that scan having been attempted.
C15_DotnetFailureFallsBack ==
    (job.executor = "scan_dotnet" /\ job.pc = "done"
        /\ ("dotnet sonarscanner begin" \in job.failures \/ InSeq("failed", job.bumps))) =>
        InSeq("sonar-scanner", job.launched)

(***************************************************************************)
(* Claims about descriptors beside stray scripts (SpecTree)                *)
(***************************************************************************)
HasPyFile == \E i \in DOMAIN tree : tree[i].is_file /\ Lower(tree[i].suffix) = ".py"

\* C16: a code repository with a build descriptor at its root (pom.xml or
\* go.mod) that also holds scripts of another ecosystem (.py files) is
\* routed to the executor of the descriptor, scan_java or scan_go, not to
\* that of the scripts.
C16_DescriptorBeatsScripts ==
    (tpc = "dispatched" /\ repo_type = "code" /\ HasPyFile) =>
        /\ ExistsAtRoot(tree, "pom", ".xml") => executor = "scan_java"
        /\ (ExistsAtRoot(tree, "go", ".mod") /\ ~ExistsAtRoot(tree, "pom", ".xml"))
              => executor = "scan_go"

(***************************************************************************)
(* Claims about bump_stat (SpecStats)                                      *)
(***************************************************************************)
\* the calls for key k whose store has not happened yet
Unwritten(k) ==
    Cardinality({t \in DOMAIN threads :
                    threads[t].key = k /\ threads[t].pc \in {"acquire", "read", "write"}})

LockDiscipline ==
    /\ Cardinality(lock) <= 1
    /\ \A t \in DOMAIN threads : threads[t].pc \in {"read", "write", "release"} <=> t \in lock
    /\ \A k \in StatKeys : stats[k] + Unwritten(k) = made[k]
    /\ (\A t \in DOMAIN threads : threads[t].pc = "idle") => stats = made

NoDecrease == \A k \in StatKeys : stats'[k] >= stats[k]

\* C19: under every interleaving of concurrent callers each load and store
\* of a stats counter happens while the caller holds stats_lock, so no
\* increment is lost: each counter equals the number of bump_stat calls made
\* for it once they have returned, and no counter ever decreases.
C19_NoLostIncrement == [](LockDiscipline) /\ [][NoDecrease]_vars

C19_Witness ==
    /\ Len(threads) >= 2
    /\ \A t \in DOMAIN threads : threads[t].pc = "idle" /\ threads[t].left = 0
    /\ made["failed"] >= 3
    /\ stats = made

(***************************************************************************)
(* Claims about scan_python and scan_go (SpecJob)                          *)
(***************************************************************************)
CoverageOpt == IF job.executor = "scan_python" THEN "python.coverage" ELSE "go.coverage"
TestCmd == IF job.executor = "scan_python" THEN "pytest" ELSE "go test"
CommandBuilt == job.executor \in {"scan_python", "scan_go"} /\ job.scanner_cmd # ""

\* C21: in scan_python and scan_go the coverage option is in the scanner
\* command iff the coverage file exists when the command is built, after the
\* test step, whether the test step succeeded or failed; the command is
\* built and the scanner invoked after either test result.
C21_CoverageIffFileExists ==
    /\ CommandBuilt =>
          /\ (CoverageOpt \in job.scan_opts) <=> job.coverage_file
          /\ job.scan_opts \subseteq {CoverageOpt}
          /\ job.scanner_cmd = "sonar-scanner"
          /\ InSeq(TestCmd, job.launched)
          /\ job.pc \in {"except", "done"} => InSeq("sonar-scanner", job.launched)
    /\ (job.executor \in {"scan_python", "scan_go"} /\ InSeq(TestCmd, job.launched))
          => CommandBuilt

C21_Witness ==
    /\ job.executor = "scan_python"
    /\ "pytest" \in job.failures
    /\ job.coverage_file
    /\ job.scan_opts = {"python.coverage"}
    /\ job.pc = "done"
    /\ InSeq("sonar-scanner", job.launched)
    /\ stats["scanned"] = 1

(***************************************************************************)
(* Claims about scan_dotnet after the begin step (SpecJob)                 *)
(***************************************************************************)
\* C24: in scan_dotnet, once the begin step has succeeded, the job ends with
\* scanned incremented exactly once and failed not incremented, whatever the
\* exit status of restore, build, test and of the end step; the fallback
\* sonar-scanner command is never built or run in that case.
C24_BeginSuccessCountsScanned ==
    BeginSucceeded =>
        /\ job.scanner_cmd = ""
        /\ ~InSeq("sonar-scanner", job.launched)
        /\ job.pc # "except"
        /\ job.pc # "done" => ~InSeq("scanned", job.bumps)
        /\ job.pc = "done" =>
              /\ job.status = "returned"
              /\ Count("scanned", job.bumps) = 1
              /\ Count("failed", job.bumps) = 0
              /\ stats["scanned"] = 1 /\ stats["failed"] = 0

C24_Witness ==
    /\ BeginSucceeded
    /\ job.pc = "done"
    /\ job.failures \cap {"dotnet restore", "dotnet build", "dotnet test",
                          "dotnet sonarscanner end"} = {"dotnet sonarscanner end"}
    /\ stats["scanned"] = 1

(***************************************************************************)
(* Claims about apply_extra_commands (SpecJob)                             *)
(***************************************************************************)
HasEntry == job.override # "none"
Redirected == job.workdir # NoWorkdir /\ PathExists(JoinPath(RepoRoot, job.workdir))
WorkdirMissing == job.workdir # NoWorkdir /\ ~PathExists(JoinPath(RepoRoot, job.workdir))

\* C22: for a repository with an override entry the override commands have
\* run to completion before classify_repo is invoked (a failed command ends
\* the job unclassified); the checkout is done on the checkout root while the
\* commands, the classification and the scanner use the redirected workdir;
\* a workdir that does not exist falls back to the repository root.
C22_OverrideBeforeClassify ==
    HasEntry =>
        /\ (job.override = "commands" /\ job.classify_dir # NoPath) =>
              /\ InSeq("bash extra_commands", job.launched)
              /\ job.launched[1 + Len(SelectSeq(job.launched, LAMBDA c : c \in RegistrarCmds
                                                    \/ c \in {"git pull", "git clone"})) ]
                    = "bash extra_commands"
              /\ "bash extra_commands" \notin job.failures
        /\ "bash extra_commands" \in job.failures =>
              /\ job.pc \in {"except", "done"}
              /\ job.classify_dir = NoPath /\ job.repo_type = "" /\ job.scan_cwd = NoPath
        /\ job.checkout_dir \in {NoPath, RepoRoot}
        /\ job.pc \in {"rename", "classify"} => job.checkout_dir = RepoRoot
        /\ Redirected =>
              /\ job.extra_cwd \in {NoPath, JoinPath(RepoRoot, job.workdir)}
              /\ job.classify_dir \in {NoPath, JoinPath(RepoRoot, job.workdir)}
              /\ job.scan_cwd \in {NoPath, JoinPath(RepoRoot, job.workdir)}
        /\ WorkdirMissing =>
              /\ job.extra_cwd \in {NoPath, RepoRoot}
              /\ job.scan_dir \in {NoPath, RepoRoot}
              /\ job.classify_dir \in {NoPath, RepoRoot}
              /\ job.scan_cwd \in {NoPath, RepoRoot}
        /\ job.repo_type # "" => job.classify_dir = job.scan_dir /\ job.scan_dir # NoPath
        /\ job.scanner_cmd # "" => job.scan_cwd = job.scan_dir

C22_Witness ==
    /\ job.override = "commands"
    /\ job.workdir = PathOf(FALSE, <<"src">>)
    /\ job.pc = "done"
    /\ job.checkout_dir = RepoRoot
    /\ job.extra_cwd = <<"tmp", "repo", "src">>
    /\ job.classify_dir = <<"tmp", "repo", "src">>
    /\ job.scan_cwd = <<"tmp", "repo", "src">>
    /\ stats["scanned"] = 1

\* the directory a path denotes, ".." components resolved
Resolve(path) == Walk(<<>>, path).dir

IsPrefix(a, b) == Len(a) <= Len(b) /\ SubSeq(b, 1, Len(a)) = a

\* C23: for every job and every override entry (any workdir, one with
\* parent-directory components or an absolute one included) the scan path
\* returned by apply_extra_commands is the checkout path or a descendant of it.
C23_ScanPathInsideCheckout ==
    job.scan_dir # NoPath => IsPrefix(RepoRoot, Resolve(job.scan_dir))

====
